---- MODULE Spec2Model ----
(***************************************************************************)
(* State-machine model of tamr_client: the operation polling engine        *)
(* (operation.wait / poll / succeeded / _from_response / _from_url /       *)
(* _from_json), the dataset operations (by_resource_id, by_name,           *)
(* attributes, materialize, delete) and instance.version.                  *)
(*                                                                         *)
(* One call of a public function is modelled at a time: every call owns    *)
(* its loop state and the library keeps no state between calls.  The       *)
(* session (HTTP transport) and the server are the environment: every      *)
(* response is drawn from a small set.  Time is an integer clock that      *)
(* advances only while the caller sleeps or a poll is in flight;           *)
(* sleep(n) advances it by exactly n.                                      *)
(*                                                                         *)
(* Python's Optional[X] is a sequence of length <= 1: None is <<>>.        *)
(* A URL path "a/b" is the sequence of its segments <<"a", "b">>.          *)
(***************************************************************************)
EXTENDS Integers, Sequences, FiniteSets, TLC

VARIABLES
    call,                   \* public function being executed ("none" before any call)
    pc,                     \* "idle" | "check" (top of wait's while) | "poll" | "returned" | "raised"
    op0,                    \* the Operation handed to wait (input snapshot)
    operation,              \* wait's local variable `operation`
    timeout_seconds,        \* wait's argument: None or Some(n)
    poll_interval_seconds,  \* wait's argument
    started,                \* wait's local `started`
    clock,                  \* what now() returns
    result,                 \* value returned to the caller
    error,                  \* exception raised to the caller ("" when none)
    bodyRead,               \* response.json() was called on the POST response
    postCode,               \* status code of materialize's POST response
    lastCode,               \* status code of the most recent HTTP response
    lastEvent,              \* most recent side effect of the call
    matched,                \* the list of matches by_name's GET was answered with
    requests,               \* HTTP requests issued by the call
    posts,                  \* POST requests issued by the call
    polls,                  \* polls (GET of the operation) issued inside wait
    sleeps,                 \* sleep() calls made inside wait
    snapshots,              \* statuses held by wait, oldest first (input, then each poll)
    overflow                \* a counter reached MaxCount and stopped counting

vars == <<call, pc, op0, operation, timeout_seconds, poll_interval_seconds,
          started, clock, result, error, bodyRead, postCode, lastCode,
          lastEvent, matched, requests, posts, polls, sleeps, snapshots, overflow>>

-----------------------------------------------------------------------------
(* Bounds of the model *)

MaxTimeout == 3
MaxInterval == 2
MaxCount == 3
MaxMatches == 2

(* wait's default poll_interval_seconds *)
DefaultInterval == 3

MaxClock == MaxTimeout + MaxInterval + 1 + DefaultInterval * MaxCount

-----------------------------------------------------------------------------
(* Optional values *)

None == <<>>
Some(x) == <<x>>
Val(o) == o[1]

Bump(n) == IF n < MaxCount THEN n + 1 ELSE n

-----------------------------------------------------------------------------
(* Values *)

NonTerminalStates == {"PENDING", "RUNNING"}
TerminalStates == {"CANCELED", "SUCCEEDED", "FAILED"}
UnrecognizedStates == {"PAUSED"}
States == NonTerminalStates \cup TerminalStates \cup UnrecognizedStates

Statuses == {None} \cup {Some(s) : s \in States}
RecognizedStatuses == {None} \cup {Some(s) : s \in NonTerminalStates \cup TerminalStates}

OperationPath(id) == <<"operations", id>>

Operation(url, type, status) == [url |-> url, type |-> type, status |-> status]

InputOperations == {Operation(OperationPath("1"), "SPARK", st) : st \in Statuses}

Timeouts == {None} \cup {Some(t) : t \in 0..MaxTimeout}
Intervals == 0..MaxInterval
(* a poll returns at once or takes one tick of the clock *)
PollTimes == {0, 1}

StatusCodes == {200, 204, 404, 500}

(* JSON body of an operation resource; a missing key is None *)
OperationJsons == [id : {None, Some("1")}, type : {None, Some("SPARK")}, status : Statuses]

Responses == [status_code : StatusCodes, body : OperationJsons]

(* responses to a GET of an operation: the body of an error response is not read *)
GetResponses ==
    {r \in Responses : r.status_code = 200 /\ r.body.id = Some("1")}
    \cup {[status_code |-> c, body |-> [id |-> None, type |-> None, status |-> None]] :
             c \in {404, 500}}

DatasetPath(id) == <<"datasets", id>>

(* JSON body of a dataset resource; a missing key is None *)
DatasetJsons ==
    [relativeId : {DatasetPath("1"), DatasetPath("2")},
     name : {None, Some("a"), Some("b")},
     keyAttributeNames : {<<"id">>, <<"id", "rev">>},
     description : {None, Some("d")}]

(* dataset records as the server lists them *)
DatasetRecords == {j \in DatasetJsons : j.name # None /\ j.description = None}

DatasetResponses ==
    {[status_code |-> 200, body |-> j] : j \in DatasetJsons}
    \cup {[status_code |-> c, body |-> CHOOSE j \in DatasetJsons : j.name = None] :
             c \in {404, 500}}

Dataset(url, name, key_attribute_names, description) ==
    [url |-> url, name |-> name, key_attribute_names |-> key_attribute_names,
     description |-> description]

InputDatasets == {Dataset(DatasetPath("1"), "a", <<"id">>, None)}

MatchLists == UNION {[1..n -> DatasetRecords] : n \in 0..MaxMatches}

AttributeLists == {<<>>, <<"x">>, <<"x", "y">>, <<"y", "x">>}

NoResult == [kind |-> "none"]
OperationResult(op) == [kind |-> "Operation", op |-> op]
DatasetResult(ds) == [kind |-> "Dataset", ds |-> ds]

-----------------------------------------------------------------------------
(* response.successful: 2xx passes, anything else is an HTTP error *)
successful(r) == r.status_code >= 200 /\ r.status_code < 300

(* operation._from_json *)
_from_json(url, data) ==
    IF data.type = None
    THEN [kind |-> "raise", error |-> "KeyError"]
    ELSE [kind |-> "ok", op |-> Operation(url, Val(data.type), data.status)]

(* _from_url without its 404 test *)
_from_url_No404(url, r) ==
    IF ~successful(r)
    THEN [kind |-> "raise", error |-> "HTTPError"]
    ELSE _from_json(url, r.body)

(* operation._from_url, given the response to its GET *)
_from_url(url, r) ==
    IF r.status_code = 404
    THEN [kind |-> "raise", error |-> "operation.NotFound"]
    ELSE IF ~successful(r)
         THEN [kind |-> "raise", error |-> "HTTPError"]
         ELSE _from_json(url, r.body)

(* the dummy resource _from_response builds for HTTP 204 *)
NoopJson == [id |-> Some("-1"), type |-> Some("NOOP"), status |-> Some("SUCCEEDED")]

(* _from_response without the 204 case: the body is always read *)
_from_response_NoNoop(r) ==
    IF r.body.id = None
    THEN [kind |-> "raise", error |-> "KeyError", read |-> TRUE]
    ELSE LET got == _from_json(OperationPath(Val(r.body.id)), r.body)
         IN  IF got.kind = "ok"
             THEN [kind |-> "ok", op |-> got.op, read |-> TRUE]
             ELSE [kind |-> "raise", error |-> got.error, read |-> TRUE]

(* operation._from_response; read tells whether response.json() was called *)
_from_response(r) ==
    LET read == r.status_code # 204
        resource_json == IF r.status_code = 204 THEN NoopJson ELSE r.body
    IN  IF resource_json.id = None
        THEN [kind |-> "raise", error |-> "KeyError", read |-> read]
        ELSE LET got == _from_json(OperationPath(Val(resource_json.id)), resource_json)
             IN  IF got.kind = "ok"
                 THEN [kind |-> "ok", op |-> got.op, read |-> read]
                 ELSE [kind |-> "raise", error |-> got.error, read |-> read]

(* dataset._from_json *)
dataset_from_json(url, data) ==
    IF data.name = None
    THEN [kind |-> "raise", error |-> "KeyError"]
    ELSE [kind |-> "ok",
          value |-> DatasetResult(Dataset(url, Val(data.name), data.keyAttributeNames,
                                          data.description))]

(* dataset._by_url, given the response to its GET *)
_by_url(url, r) ==
    IF r.status_code = 404
    THEN [kind |-> "raise", error |-> "dataset.NotFound"]
    ELSE IF ~successful(r)
         THEN [kind |-> "raise", error |-> "HTTPError"]
         ELSE dataset_from_json(url, r.body)

(* by_name without its Ambiguous test: the first match wins *)
by_name_outcome_FirstMatch(matches) ==
    IF Len(matches) = 0
    THEN [kind |-> "raise", error |-> "dataset.NotFound"]
    ELSE dataset_from_json(matches[1].relativeId, matches[1])

(* dataset.by_name after its GET: classify the matches *)
by_name_outcome(matches) ==
    IF Len(matches) = 0
    THEN [kind |-> "raise", error |-> "dataset.NotFound"]
    ELSE IF Len(matches) > 1
         THEN [kind |-> "raise", error |-> "dataset.Ambiguous"]
         ELSE dataset_from_json(matches[1].relativeId, matches[1])

(* dataset.delete after its DELETE *)
delete_outcome(r) ==
    IF r.status_code = 404
    THEN [kind |-> "raise", error |-> "dataset.NotFound"]
    ELSE IF ~successful(r)
         THEN [kind |-> "raise", error |-> "HTTPError"]
         ELSE [kind |-> "ok", value |-> [kind |-> "None"]]

(* dataset.attributes after its GET: one Attribute per element, in server order *)
attributes_outcome(url, code, names) ==
    IF ~successful([status_code |-> code])
    THEN [kind |-> "raise", error |-> "HTTPError"]
    ELSE [kind |-> "ok",
          value |-> [kind |-> "Attributes",
                     urls |-> [i \in 1..Len(names) |->
                                url \o <<"attributes", names[i]>>]]]

(* instance.version after its GET: the "version" key of the body *)
version_outcome(body) ==
    IF body = None
    THEN [kind |-> "raise", error |-> "KeyError"]
    ELSE [kind |-> "ok", value |-> [kind |-> "str", value |-> Val(body)]]

(* operation.succeeded *)
succeeded(op) == op.status # None /\ Val(op.status) = "SUCCEEDED"

(* the loop condition with a timeout of 0 read as "no timeout" *)
LoopCond_ZeroIsNone(timeout, elapsed) ==
    IF timeout = None \/ timeout = Some(0) THEN TRUE ELSE elapsed < Val(timeout)

(* the loop condition with <= for < *)
LoopCond_Inclusive(timeout, elapsed) ==
    IF timeout = None THEN TRUE ELSE elapsed <= Val(timeout)

(* wait's loop condition *)
LoopCond(timeout, elapsed) ==
    IF timeout = None THEN TRUE ELSE elapsed < Val(timeout)

(* the chain with RUNNING missing from the states that sleep *)
Branch_RunningNotSlept(op) ==
    IF op.status = None THEN "return"
    ELSE IF Val(op.status) \in {"PENDING"} THEN "sleep"
    ELSE IF Val(op.status) \in {"CANCELED", "SUCCEEDED", "FAILED"} THEN "return"
    ELSE "fallthrough"

(* the chain with a final else that sleeps *)
Branch_ElseSleeps(op) ==
    IF op.status = None THEN "return"
    ELSE IF Val(op.status) \in {"CANCELED", "SUCCEEDED", "FAILED"} THEN "return"
    ELSE "sleep"

(* wait's if / elif / elif chain *)
Branch(op) ==
    IF op.status = None THEN "return"
    ELSE IF Val(op.status) \in {"PENDING", "RUNNING"} THEN "sleep"
    ELSE IF Val(op.status) \in {"CANCELED", "SUCCEEDED", "FAILED"} THEN "return"
    ELSE "fallthrough"

Elapsed == clock - started

-----------------------------------------------------------------------------
Init ==
    /\ call = "none"
    /\ pc = "idle"
    /\ op0 = Operation(OperationPath("1"), "SPARK", None)
    /\ operation = Operation(OperationPath("1"), "SPARK", None)
    /\ timeout_seconds = None
    /\ poll_interval_seconds = DefaultInterval
    /\ started = 0
    /\ clock = 0
    /\ result = NoResult
    /\ error = ""
    /\ bodyRead = FALSE
    /\ postCode = None
    /\ lastCode = None
    /\ lastEvent = "none"
    /\ matched = <<>>
    /\ requests = 0
    /\ posts = 0
    /\ polls = 0
    /\ sleeps = 0
    /\ snapshots = <<>>
    /\ overflow = FALSE

(* entering operation.wait: started = now(); the first evaluation of the loop
   condition reads the same clock value *)
EnterWait(op, timeout, interval) ==
    /\ op0' = op
    /\ operation' = op
    /\ timeout_seconds' = timeout
    /\ poll_interval_seconds' = interval
    /\ started' = clock
    /\ snapshots' = <<op.status>>
    /\ pc' = "check"

(* a caller invokes operation.wait *)
CallWait(op, timeout, interval) ==
    /\ pc = "idle"
    /\ call' = "wait"
    /\ EnterWait(op, timeout, interval)
    /\ UNCHANGED <<clock, result, error, bodyRead, postCode, lastCode, lastEvent,
                   matched, requests, posts, polls, sleeps, overflow>>

(* the while condition fails: raise TimeoutError *)
WaitTimeout ==
    /\ pc = "check"
    /\ ~LoopCond(timeout_seconds, Elapsed)
    /\ pc' = "raised"
    /\ error' = "Timeout"
    /\ UNCHANGED <<call, matched, op0, operation, timeout_seconds, poll_interval_seconds,
                   started, clock, result, bodyRead, postCode, lastCode, lastEvent,
                   requests, posts, polls, sleeps, snapshots, overflow>>

(* status is None, or the state is terminal: return operation *)
WaitReturn ==
    /\ pc = "check"
    /\ LoopCond(timeout_seconds, Elapsed)
    /\ Branch(operation) = "return"
    /\ pc' = "returned"
    /\ result' = OperationResult(operation)
    /\ UNCHANGED <<call, matched, op0, operation, timeout_seconds, poll_interval_seconds,
                   started, clock, error, bodyRead, postCode, lastCode, lastEvent,
                   requests, posts, polls, sleeps, snapshots, overflow>>

(* PENDING or RUNNING: sleep(poll_interval_seconds), then go on to the poll *)
WaitSleep ==
    /\ pc = "check"
    /\ LoopCond(timeout_seconds, Elapsed)
    /\ Branch(operation) = "sleep"
    /\ clock + poll_interval_seconds <= MaxClock
    /\ clock' = clock + poll_interval_seconds
    /\ sleeps' = Bump(sleeps)
    /\ overflow' = (overflow \/ sleeps = MaxCount)
    /\ lastEvent' = "sleep"
    /\ pc' = "poll"
    /\ UNCHANGED <<call, matched, op0, operation, timeout_seconds, poll_interval_seconds,
                   started, result, error, bodyRead, postCode, lastCode,
                   requests, posts, polls, snapshots>>

(* any other state: no branch is taken, go on to the poll *)
WaitFallThrough ==
    /\ pc = "check"
    /\ LoopCond(timeout_seconds, Elapsed)
    /\ Branch(operation) = "fallthrough"
    /\ pc' = "poll"
    /\ UNCHANGED <<call, matched, op0, operation, timeout_seconds, poll_interval_seconds,
                   started, clock, result, error, bodyRead, postCode, lastCode,
                   lastEvent, matched, requests, posts, polls, sleeps, snapshots,
                   overflow>>

(* operation = poll(session, operation): one GET taking d seconds, answered by r *)
WaitPoll(r, d) ==
    /\ pc = "poll"
    /\ clock + d <= MaxClock
    /\ clock' = clock + d
    /\ requests' = Bump(requests)
    /\ polls' = Bump(polls)
    /\ overflow' = (overflow \/ polls = MaxCount \/ requests = MaxCount)
    /\ lastCode' = Some(r.status_code)
    /\ lastEvent' = "poll"
    /\ LET got == _from_url(operation.url, r) IN
        IF got.kind = "ok"
        THEN /\ operation' = got.op
             /\ snapshots' = IF polls < MaxCount
                             THEN Append(snapshots, got.op.status)
                             ELSE snapshots
             /\ pc' = "check"
             /\ error' = error
        ELSE /\ operation' = operation
             /\ snapshots' = snapshots
             /\ pc' = "raised"
             /\ error' = got.error
    /\ UNCHANGED <<call, matched, op0, timeout_seconds, poll_interval_seconds, started,
                   result, bodyRead, postCode, posts, sleeps>>

(* a call that issues n requests, the last answered with status `code`, and ends *)
Finish(name, n, code, outcome) ==
    /\ pc = "idle"
    /\ call' = name
    /\ requests' = n
    /\ lastCode' = Some(code)
    /\ lastEvent' = "request"
    /\ IF outcome.kind = "ok"
       THEN pc' = "returned" /\ result' = outcome.value /\ error' = error
       ELSE pc' = "raised" /\ result' = result /\ error' = outcome.error
    /\ UNCHANGED <<op0, operation, timeout_seconds, poll_interval_seconds, started,
                   clock, bodyRead, postCode, posts, polls, sleeps, snapshots,
                   overflow>>

(* operation.poll: one GET of the operation's own URL *)
Poll(op, r) ==
    /\ LET got == _from_url(op.url, r)
       IN  Finish("poll", 1, r.status_code,
                  IF got.kind = "ok"
                  THEN [kind |-> "ok", value |-> OperationResult(got.op)]
                  ELSE got)
    /\ UNCHANGED matched

(* dataset.by_resource_id: one GET of datasets/{id} *)
ByResourceId(id, r) ==
    /\ Finish("by_resource_id", 1, r.status_code, _by_url(DatasetPath(id), r))
    /\ UNCHANGED matched

(* by_name fetching the single match again by its own URL *)
ByName_Refetch(code, matches) ==
    /\ Finish("by_name", IF Len(matches) = 1 THEN 2 ELSE 1, code, by_name_outcome(matches))
    /\ matched' = matches

(* dataset.by_name: one GET of the collection, answered with the list `matches` *)
ByName(code, matches) ==
    /\ Finish("by_name", 1, code, by_name_outcome(matches))
    /\ matched' = matches

(* dataset.attributes: one GET of the attributes collection *)
Attributes(dataset, code, names) ==
    /\ Finish("attributes", 1, code, attributes_outcome(dataset.url, code, names))
    /\ UNCHANGED matched

(* dataset.delete: one DELETE *)
Delete(r) ==
    /\ Finish("delete", 1, r.status_code, delete_outcome(r))
    /\ UNCHANGED matched

(* instance.version: one GET *)
Version(code, body) ==
    /\ Finish("version", 1, code, version_outcome(body))
    /\ UNCHANGED matched

(* dataset.materialize: _materialize_async's POST answered by r, then operation.wait
   with its default arguments *)
Materialize(r) ==
    /\ pc = "idle"
    /\ call' = "materialize"
    /\ requests' = 1
    /\ posts' = 1
    /\ postCode' = Some(r.status_code)
    /\ lastCode' = Some(r.status_code)
    /\ lastEvent' = "post"
    /\ LET got == _from_response(r) IN
        /\ bodyRead' = got.read
        /\ IF got.kind = "ok"
           THEN /\ EnterWait(got.op, None, DefaultInterval)
                /\ error' = error
           ELSE /\ pc' = "raised"
                /\ error' = got.error
                /\ UNCHANGED <<op0, operation, timeout_seconds, poll_interval_seconds,
                               started, snapshots>>
    /\ UNCHANGED <<clock, result, matched, polls, sleeps, overflow>>

(* the calls a client can make, and the answers the server can give *)
WaitCall ==
    pc = "idle" /\ \E op \in InputOperations, t \in Timeouts, i \in Intervals :
                      CallWait(op, t, i)

WaitPollStep ==
    pc = "poll" /\ \E r \in GetResponses, d \in PollTimes : WaitPoll(r, d)

MaterializeCall ==
    pc = "idle" /\ \E r \in Responses : Materialize(r)

PollCall ==
    pc = "idle" /\ \E op \in InputOperations, r \in GetResponses : Poll(op, r)

ByResourceIdCall ==
    pc = "idle" /\ \E id \in {"1", "2"}, r \in DatasetResponses : ByResourceId(id, r)

ByNameCall ==
    pc = "idle" /\ \E m \in MatchLists : ByName(200, m)

AttributesCall ==
    pc = "idle" /\ \E ds \in InputDatasets, code \in {200, 500}, names \in AttributeLists :
                      Attributes(ds, code, names)

DeleteCall ==
    pc = "idle" /\ \E r \in DatasetResponses : Delete(r)

VersionCall ==
    pc = "idle" /\ \E body \in {None, Some("2020.016.0")} : Version(200, body)

Next ==
    \/ WaitCall
    \/ WaitTimeout
    \/ WaitReturn
    \/ WaitSleep
    \/ WaitFallThrough
    \/ WaitPollStep
    \/ MaterializeCall
    \/ PollCall
    \/ ByResourceIdCall
    \/ ByNameCall
    \/ AttributesCall
    \/ DeleteCall
    \/ VersionCall

Spec == Init /\ [][Next]_vars

-----------------------------------------------------------------------------
(* wait with a finite timeout, only recognized states, every poll succeeding
   and answered at once; the thread of control always takes its next step and
   the server answers every poll *)

RecognizedInputOperations == {op \in InputOperations : op.status \in RecognizedStatuses}

InstantPollResponses ==
    {r \in GetResponses : r.status_code = 200 /\ r.body.type # None
                          /\ r.body.status \in RecognizedStatuses}

WaitCallFinite ==
    pc = "idle" /\ \E op \in RecognizedInputOperations, t \in 0..MaxTimeout, i \in Intervals :
                      CallWait(op, Some(t), i)

WaitPollInstant ==
    pc = "poll" /\ \E r \in InstantPollResponses : WaitPoll(r, 0)

NextLive ==
    \/ WaitCallFinite
    \/ WaitTimeout
    \/ WaitReturn
    \/ WaitSleep
    \/ WaitPollInstant

SpecLive == Init /\ [][NextLive]_vars /\ WF_vars(NextLive)

-----------------------------------------------------------------------------
(* Vocabulary of the properties *)

Ended == pc \in {"returned", "raised"}
InWait == call \in {"wait", "materialize"}
Resolved(op) == op.status = None \/ op.status \in {Some(s) : s \in TerminalStates}
Waiting(status) == status \in {Some(s) : s \in NonTerminalStates}
Unrecognized(status) == status \in {Some(s) : s \in UnrecognizedStates}
Last(seq) == seq[Len(seq)]
NoopOperation == Operation(<<"operations", "-1">>, "NOOP", Some("SUCCEEDED"))

(* the snapshots so far are k >= 0 PENDING/RUNNING ones followed by a terminal one *)
WaitingThenTerminal ==
    /\ Len(snapshots) >= 1
    /\ Last(snapshots) \in {Some(s) : s \in TerminalStates}
    /\ \A i \in 1..(Len(snapshots) - 1) : Waiting(snapshots[i])

(* C1: with timeout_seconds = None and every poll succeeding, k PENDING/RUNNING
   snapshots followed by a terminal one make wait return that terminal snapshot
   after exactly k sleeps and k polls, each poll coming right after a sleep. *)
C1_ReturnsFirstTerminal ==
    /\ [](InWait /\ timeout_seconds = None /\ ~overflow /\ WaitingThenTerminal
            => /\ pc \in {"check", "returned"}
               /\ operation.status = Last(snapshots)
               /\ sleeps = Len(snapshots) - 1
               /\ polls = Len(snapshots) - 1
               /\ pc = "check" => ENABLED WaitReturn
               /\ pc = "returned" => result = OperationResult(operation))
    /\ [][InWait /\ timeout_seconds = None /\ pc = "check"
          /\ operation.status \in {Some(s) : s \in TerminalStates}
            => pc' = "returned" /\ result' = OperationResult(operation)]_vars
    /\ [][InWait /\ timeout_seconds = None /\ pc = "poll" /\ pc' # "poll"
          /\ Waiting(operation.status)
            => lastEvent = "sleep" /\ lastEvent' = "poll"]_vars

C1_Witness ==
    /\ call = "wait" /\ timeout_seconds = None /\ pc = "returned"
    /\ snapshots = <<Some("PENDING"), Some("PENDING"), Some("SUCCEEDED")>>
    /\ sleeps = 2 /\ polls = 2
    /\ result = OperationResult(operation) /\ succeeded(operation)

(* C2: wait called with an operation that is already resolved (status None or
   a terminal state) returns that operation on the first check, with no poll
   and no sleep, and does not raise, whatever timeout_seconds is. *)
C2_ResolvedInputReturned ==
    call = "wait" /\ Resolved(op0)
        => /\ pc \in {"check", "returned"}
           /\ polls = 0 /\ sleeps = 0 /\ requests = 0
           /\ pc = "returned" => result = OperationResult(op0)

(* C3: whenever wait raises Timeout, the snapshot it holds has a status whose
   state is not SUCCEEDED, FAILED or CANCELED. *)
C3_TimeoutOnlyUnresolved ==
    InWait /\ pc = "raised" /\ error = "Timeout" => ~Resolved(operation)

(* C4: wait with timeout_seconds = 0 and a PENDING or RUNNING operation raises
   Timeout with zero sleeps and zero polls. *)
C4_ZeroTimeoutRaisesAtOnce ==
    call = "wait" /\ timeout_seconds = Some(0) /\ Waiting(op0.status)
        => /\ pc \in {"check", "raised"}
           /\ sleeps = 0 /\ polls = 0 /\ requests = 0
           /\ pc = "check" => ENABLED WaitTimeout /\ ~ENABLED WaitSleep
           /\ pc = "raised" => error = "Timeout" /\ result = NoResult

C4_Witness ==
    /\ call = "wait" /\ timeout_seconds = Some(0) /\ op0.status = Some("RUNNING")
    /\ pc = "raised" /\ error = "Timeout" /\ sleeps = 0 /\ polls = 0

(* C5: a poll inside wait that fails ends the wait at once with that error:
   404 gives operation.NotFound, any other non-2xx the HTTP error; no further
   poll or sleep follows, no Operation is returned, no Timeout is raised. *)
C5_PollFailureAborts ==
    InWait /\ lastEvent = "poll" /\ lastCode # None /\ ~successful([status_code |-> Val(lastCode)])
        => /\ pc = "raised"
           /\ error = (IF Val(lastCode) = 404 THEN "operation.NotFound" ELSE "HTTPError")
           /\ result = NoResult
           /\ ~ENABLED Next

C5_Witness ==
    /\ call = "wait" /\ lastEvent = "poll" /\ lastCode = Some(404)
    /\ pc = "raised" /\ error = "operation.NotFound"
    /\ polls = 2 /\ sleeps = 2 /\ timeout_seconds # None

(* C6: a 204 response makes _from_response build, without reading the body,
   the Operation NOOP / SUCCEEDED / operations/-1, for which succeeded holds;
   materialize's wait returns it with zero polls and zero sleeps. *)
C6_NoContentIsSucceededNoop ==
    call = "materialize" /\ postCode = Some(204)
        => /\ op0 = NoopOperation /\ operation = op0
           /\ succeeded(operation)
           /\ ~bodyRead
           /\ polls = 0 /\ sleeps = 0 /\ requests = 1
           /\ pc \in {"check", "returned"}
           /\ pc = "check" => ENABLED WaitReturn
           /\ pc = "returned" => result = OperationResult(NoopOperation)

C6_Witness ==
    /\ call = "materialize" /\ postCode = Some(204) /\ pc = "returned"
    /\ result = OperationResult(NoopOperation) /\ polls = 0 /\ sleeps = 0

(* C7: by_name issues exactly one GET; no match raises NotFound, two or more
   raise Ambiguous, exactly one returns the Dataset whose url path is the
   match's relativeId and whose name and key attributes are the match's. *)
C7_ByNameClassifies ==
    call = "by_name"
        => /\ requests = 1
           /\ Len(matched) = 0 => pc = "raised" /\ error = "dataset.NotFound"
           /\ Len(matched) > 1 => pc = "raised" /\ error = "dataset.Ambiguous"
           /\ Len(matched) = 1
                => /\ pc = "returned" /\ error = ""
                   /\ result.kind = "Dataset"
                   /\ result.ds.url = matched[1].relativeId
                   /\ result.ds.url # <<"datasets">>
                   /\ result.ds.name = Val(matched[1].name)
                   /\ result.ds.key_attribute_names = matched[1].keyAttributeNames
           /\ pc = "raised" => result = NoResult

C7_Witness ==
    /\ call = "by_name" /\ Len(matched) = 1 /\ pc = "returned"
    /\ result.ds.url = DatasetPath("2") /\ result.ds.name = "b"

(* C8 as stated: every public operation other than wait, materialize included,
   issues at most one HTTP request per call. *)
C8_OneRequestExceptWait ==
    call # "wait" => requests <= 1

(* C8 as amended: every public operation other than wait and materialize issues
   at most one HTTP request per call; materialize issues exactly one POST and
   then the polls of the wait it runs. *)
C8_OneRequestExceptWaitAndMaterialize ==
    /\ call \notin {"wait", "materialize"} => requests <= 1 /\ posts = 0 /\ polls = 0
    /\ call \notin {"none", "wait", "materialize"} => requests = 1 /\ Ended
    /\ call = "materialize" => posts = 1 /\ (~overflow => requests = 1 + polls)
    /\ call = "wait" => posts = 0 /\ (~overflow => requests = polls)

C8_Witness ==
    /\ call = "materialize" /\ pc = "returned" /\ posts = 1 /\ polls = 2 /\ requests = 3

(* C9: a snapshot with an unrecognized state makes wait neither sleep nor
   return: it goes straight to the next poll.  With timeout_seconds = None and
   every poll answered with such a state, wait neither returns nor raises and
   never sleeps. *)
C9_UnrecognizedStateBusyLoop ==
    /\ [](InWait /\ timeout_seconds = None /\ ~overflow
          /\ error \notin {"operation.NotFound", "HTTPError", "KeyError"}
          /\ Len(snapshots) >= 1
          /\ (\A i \in 1..Len(snapshots) : Unrecognized(snapshots[i]))
            => /\ pc \in {"check", "poll"}
               /\ sleeps = 0
               /\ polls = Len(snapshots) - 1
               /\ error = "" /\ result = NoResult
               /\ pc = "check" => ENABLED WaitFallThrough)
    /\ [][InWait /\ pc = "check" /\ Unrecognized(operation.status)
          /\ LoopCond(timeout_seconds, Elapsed)
            => pc' = "poll" /\ clock' = clock /\ sleeps' = sleeps
               /\ lastEvent' = lastEvent /\ operation' = operation]_vars

C9_Witness ==
    /\ call = "wait" /\ timeout_seconds = None /\ pc = "check"
    /\ snapshots = <<Some("PAUSED"), Some("PAUSED"), Some("PAUSED")>>
    /\ polls = 2 /\ sleeps = 0 /\ clock = started

(* no sleep starts once elapsed >= timeout_seconds *)
NoSleepPastDeadline ==
    [][pc = "check" /\ pc' = "poll" => Elapsed < Val(timeout_seconds)]_vars

(* C10 as stated: with a finite timeout T, polls that take no time and only
   recognized states, wait always ends, by returning an Operation or raising
   Timeout, at an elapsed time below T + poll_interval_seconds, and no sleep
   starts once elapsed >= T. *)
C10_TerminatesWithinOneInterval ==
    /\ [](pc \in {"check", "poll"} => <>Ended)
    /\ [](Ended => /\ Elapsed < Val(timeout_seconds) + poll_interval_seconds
                   /\ pc = "raised" => error = "Timeout")
    /\ NoSleepPastDeadline

(* C10 as amended: the same for poll_interval_seconds > 0. *)
C10_PositiveIntervalTerminates ==
    /\ [](pc \in {"check", "poll"} /\ poll_interval_seconds > 0 => <>Ended)
    /\ [](Ended /\ poll_interval_seconds > 0
            => /\ Elapsed < Val(timeout_seconds) + poll_interval_seconds
               /\ pc = "raised" => error = "Timeout")
    /\ NoSleepPastDeadline

C10_Witness ==
    /\ call = "wait" /\ pc = "raised" /\ error = "Timeout"
    /\ timeout_seconds = Some(1) /\ poll_interval_seconds = 2
    /\ sleeps = 1 /\ polls = 1 /\ Elapsed = 2

====
